---- MODULE Spec2Model ----
(***************************************************************************)
(* Model of pi.h: the GUID text parser, the interface registry of          *)
(* UnknownImpl<Interfaces...> and its hybrid (COM + shared_ptr) reference   *)
(* counting.  The repository holds two revisions of the header:            *)
(*   src/src/pi.h          raw "new scoped_lock" guards                    *)
(*   src/unnamed/part_000  unique_ptr guards                               *)
(* A build includes one of them; the variable header records which.        *)
(***************************************************************************)
EXTENDS Integers, Sequences, FiniteSets, TLC

(* ------------------------------------------------------------------ *)
(* Bounds of the model                                                *)
(* ------------------------------------------------------------------ *)
NThreads == 2
MaxRefs == 2
MaxIfaces == 2
MaxStrays == 1
MaxRecase == 2

Threads == 1..NThreads
\* the thread that constructs the object and takes the first reference
Creator == CHOOSE t \in Threads : \A u \in Threads : t <= u

(* ------------------------------------------------------------------ *)
(* SafeResult                                                         *)
(* ------------------------------------------------------------------ *)
Pow2(n) == 2^n
\* a 32 bit value as its two 16 bit halves
Word32(hi, lo) == [hi |-> hi, lo |-> lo]
\* the enumerators' bit patterns; pi.h writes them as int(0x8000400x),
\* part_000 as uint32_t 0x8000400x
S_OK == Word32(0, 0)
E_NOINTERFACE == Word32(32768, 16386)
E_POINTER == Word32(32768, 16387)

(* ------------------------------------------------------------------ *)
(* GUID, operator== and string_to_guid                                *)
(* ------------------------------------------------------------------ *)
hex2bin == <<
    99,99,99,99,99,99,99,99,99,99,99,99,99,99,99,99,
    99,99,99,99,99,99,99,99,99,99,99,99,99,99,99,99,
    99,99,99,99,99,99,99,99,99,99,99,99,99,99,99,99,
     0, 1, 2, 3, 4, 5, 6, 7, 8, 9,99,99,99,99,99,99,
    99,10,11,12,13,14,15,99,99,99,99,99,99,99,99,99,
    99,99,99,99,99,99,99,99,99,99,99,99,99,99,99,99,
    99,10,11,12,13,14,15 >>

\* s[i] of a C string held as the tuple of its chars, terminator included
CharAt(s, i) == s[i + 1]

\* hex2bin[c]: the table has 103 entries, any other index is read out of bounds
InTable(c) == c >= 0 /\ c < Len(hex2bin)
\* variant: a table without its row 0x60 (the lower case digits)
Hex_upperOnly(c) == IF c >= 96 THEN 99 ELSE hex2bin[c + 1]

Hex(c) == hex2bin[c + 1]

\* one iteration of the checking loop: "ok", "fail" (return false / nullopt)
\* or "oob" (the table is indexed outside its bounds)
CheckChar(s, i) ==
    IF i \in {8, 13, 18, 23}
    THEN IF CharAt(s, i) # 45 THEN "fail" ELSE "ok"
    ELSE IF i = 36
    THEN IF CharAt(s, i) # 0 THEN "fail" ELSE "ok"
    ELSE IF CharAt(s, i) > 102 THEN "fail"
    ELSE IF ~InTable(CharAt(s, i)) THEN "oob"
    ELSE IF Hex(CharAt(s, i)) > 15 THEN "fail"
    ELSE "ok"

RECURSIVE CheckLoop(_, _)
CheckLoop(s, i) ==
    IF i >= 37 THEN "ok"
    ELSE IF CheckChar(s, i) # "ok" THEN CheckChar(s, i)
    ELSE CheckLoop(s, i + 1)

\* the last position of s the checking loop reads: the one it returns at, or
\* 36 when it runs to its end
RECURSIVE LastRead(_, _)
LastRead(s, i) ==
    IF i >= 36 THEN 36
    ELSE IF CheckChar(s, i) # "ok" THEN i
    ELSE LastRead(s, i + 1)

\* a | b | ... of left-shifted nibbles: the operands have no bit in common
\* once every nibble is <= 15, so the bitwise or is the sum
H(s, i) == Hex(CharAt(s, i))
\* variant: the two digits of a byte taken low digit first
Byte_swapped(s, i) == (H(s, i + 1) * 16 + H(s, i)) % 256

Byte(s, i) == (H(s, i) * 16 + H(s, i + 1)) % 256

ZeroGuid == [Data1 |-> Word32(0, 0), Data2 |-> 0, Data3 |-> 0,
             Data4 |-> <<0, 0, 0, 0, 0, 0, 0, 0>>]

\* v << n for an unsigned char v promoted to a 32 bit int: the bit shifted
\* into position 31 is the sign bit of the result, bits shifted further are
\* lost
ShiftLeft(v, n) ==
    (v % Pow2(31 - n)) * Pow2(n)
      - ((v \div Pow2(31 - n)) % 2) * Pow2(30)
      - ((v \div Pow2(31 - n)) % 2) * Pow2(30)

\* variant: the conversion of a negative int clamps to 0
ToUInt32_clamped(x) ==
    IF x < 0 THEN Word32(0, 0)
    ELSE Word32((x \div Pow2(16)) % Pow2(16), x % Pow2(16))

\* an int stored into an unsigned int: the value modulo 2^32
ToUInt32(x) == Word32((x \div Pow2(16)) % Pow2(16), x % Pow2(16))

\* Data1 = h0 << 28 | h1 << 24 | ... | h7, computed in int and stored into
\* an unsigned int; Data2, Data3 are stored into unsigned short
Decode(s) ==
    [Data1 |-> ToUInt32(ShiftLeft(H(s, 0), 28) + ShiftLeft(H(s, 1), 24)
                        + ShiftLeft(H(s, 2), 20) + ShiftLeft(H(s, 3), 16)
                        + ShiftLeft(H(s, 4), 12) + ShiftLeft(H(s, 5), 8)
                        + ShiftLeft(H(s, 6), 4) + H(s, 7)),
     Data2 |-> (H(s, 9) * Pow2(12) + H(s, 10) * Pow2(8) + H(s, 11) * Pow2(4)
                + H(s, 12)) % Pow2(16),
     Data3 |-> (H(s, 14) * Pow2(12) + H(s, 15) * Pow2(8) + H(s, 16) * Pow2(4)
                + H(s, 17)) % Pow2(16),
     Data4 |-> << Byte(s, 19), Byte(s, 21), Byte(s, 24), Byte(s, 26),
                  Byte(s, 28), Byte(s, 30), Byte(s, 32), Byte(s, 34) >>]

\* result: has_value (pi.h: the returned bool) and the GUID
string_to_guid(s) ==
    LET c == CheckLoop(s, 0) IN
    [status |-> c, id |-> IF c = "ok" THEN Decode(s) ELSE ZeroGuid]

\* memcmp over the 16 bytes of the struct (4 + 2 + 2 + 8, no padding)
GuidBytes(g) ==
    << g.Data1.lo % 256, (g.Data1.lo \div 256) % 256,
       g.Data1.hi % 256, (g.Data1.hi \div 256) % 256,
       g.Data2 % 256, (g.Data2 \div 256) % 256,
       g.Data3 % 256, (g.Data3 \div 256) % 256 >> \o g.Data4
GuidEq(a, b) == GuidBytes(a) = GuidBytes(b)

(* ------------------------------------------------------------------ *)
(* Interface types and their IID texts                                *)
(* ------------------------------------------------------------------ *)
IUnknown_IID ==
    <<48, 48, 48, 48, 48, 48, 48, 48, 45, 48, 48, 48, 48, 45, 48, 48, 48, 48,
      45, 67, 48, 48, 48, 45, 48, 48, 48, 48, 48, 48, 48, 48, 48, 48, 52, 54,
      0>>
\* interfaces a user of the header declares (PASCAL_INTERFACE_BEGIN /
\* PascalInterface<IID>): IFoo, IFooAlias (the text of IFoo in lower case)
\* and IBad (a text that does not parse)
IFoo_IID ==
    <<65, 49, 66, 50, 67, 51, 68, 52, 45, 48, 48, 48, 49, 45, 48, 48, 48, 50,
      45, 65, 66, 67, 68, 45, 48, 49, 50, 51, 52, 53, 54, 55, 56, 57, 65, 66,
      0>>
IFooAlias_IID ==
    <<97, 49, 98, 50, 99, 51, 100, 52, 45, 48, 48, 48, 49, 45, 48, 48, 48, 50,
      45, 97, 98, 99, 100, 45, 48, 49, 50, 51, 52, 53, 54, 55, 56, 57, 97, 98,
      0>>
IBad_IID ==
    <<65, 49, 66, 50, 67, 51, 68, 52, 45, 48, 48, 48, 49, 45, 48, 48, 48, 50,
      45, 65, 66, 67, 68, 45, 48, 49, 50, 51, 52, 53, 54, 55, 56, 57, 65, 71,
      0>>
\* the text of an identifier no declared interface carries
IBar_IID ==
    <<65, 49, 66, 50, 67, 51, 68, 52, 45, 48, 48, 48, 49, 45, 48, 48, 48, 50,
      45, 65, 66, 67, 68, 45, 48, 49, 50, 51, 52, 53, 54, 55, 56, 57, 65, 67,
      0>>

IfaceTypes == {"IUnknown", "IFoo", "IFooAlias", "IBad"}
\* I1::__guid(): constexpr, the parse of the interface's text is computed
\* once per interface type
IUnknown_guid == string_to_guid(IUnknown_IID)
IFoo_guid == string_to_guid(IFoo_IID)
IFooAlias_guid == string_to_guid(IFooAlias_IID)
IBad_guid == string_to_guid(IBad_IID)
IBar_guid == string_to_guid(IBar_IID)
Parsed(T) ==
    CASE T = "IUnknown" -> IUnknown_guid
      [] T = "IFoo" -> IFoo_guid
      [] T = "IFooAlias" -> IFooAlias_guid
      [] T = "IBad" -> IBad_guid
GuidOf(T) == Parsed(T).id
\* static_assert(id.first) / static_assert(id)
GuidValid(T) == Parsed(T).status = "ok"

(* ------------------------------------------------------------------ *)
(* State                                                              *)
(* ------------------------------------------------------------------ *)
VARIABLES
    header,             \* which revision of the header the build includes
    Interfaces,         \* the template arguments of UnknownImpl<Interfaces...>
    built,              \* "source", "ok" (compiled) or "error" (rejected)
    refCountCom,        \* int refCountCom
    refCountSharedPtr,  \* int refCountSharedPtr
    refStarted,         \* bool refStarted
    refMutex,           \* std::mutex refMutex: the set of threads owning it
    freed,              \* "delete this" has run
    deleted,            \* how many times "delete this" has run (2: twice or more)
    uaf,                \* a member of the object was used after "delete this"
    aborted,            \* an assert failed
    pc,                 \* where each thread stands in its call
    inQI,               \* the thread's AddRef is the one QueryInterfaceImpl makes
    qi,                 \* the arguments of the thread's QueryInterface call
    ret,                \* what the step just taken returned to its caller
    dec,                \* the value of --refCountCom in the thread's Release
    slot,               \* the void* the callers' ppvObject points to
    ext,                \* COM references each thread owns
    sh,                 \* shared_ptr handles each thread owns
    text,               \* the char array handed to string_to_guid
    edits,              \* how many changes made text out of an IID text (0, 1)
    parsed,             \* what string_to_guid(text) returned
    twin,               \* a second char array, made out of text
    parsedTwin,         \* what string_to_guid(twin) returned
    ndebug,             \* the build defines NDEBUG: assert() expands to nothing
    strays              \* calls made so far by threads that own no reference

vars == << header, Interfaces, built, refCountCom, refCountSharedPtr,
           refStarted, refMutex, freed, deleted, uaf, aborted, pc, inQI, qi,
           ret, dec, slot, ext, sh, text, edits, parsed, twin, parsedTwin,
           ndebug, strays >>

obj == << refCountCom, refCountSharedPtr, refStarted, refMutex, freed,
          deleted, uaf, aborted >>
cfg == << header, Interfaces, built, ndebug >>
parser == << text, edits, parsed, twin, parsedTwin >>

Headers == {"pi.h", "part_000"}
\* what a caller passes as pguid: nullptr or a pointer to a GUID; as
\* ppvObject: nullptr or a pointer to a void*
NullGuidPtr == [null |-> TRUE, g |-> ZeroGuid]
GuidPtr(g) == [null |-> FALSE, g |-> g]
GuidArgs == { NullGuidPtr, GuidPtr(GuidOf("IUnknown")), GuidPtr(GuidOf("IFoo")),
              GuidPtr(IBar_guid.id) }
SlotArgs == {"null", "slot"}
Args(pguid, ppvObject) == [pguid |-> pguid, ppvObject |-> ppvObject]
NoArgs == Args(NullGuidPtr, "null")

\* the step returns from f: an int (AddRef, Release; own is the value its
\* own decrement left) or a SafeResult (QueryInterface called with args)
Ret(f, x, o) ==
    [fn |-> f, v |-> x, hr |-> S_OK, own |-> o, args |-> NoArgs]
RetHr(code, a) ==
    [fn |-> "QueryInterface", v |-> 0, hr |-> code, own |-> 0, args |-> a]
\* the step is not the return of a call
NoRet == Ret("none", 0, 0)

\* no char array is being parsed; string_to_guid has not returned
NoText == << >>
NotParsed == [called |-> FALSE, oob |-> FALSE, last |-> 0, status |-> "none",
              id |-> ZeroGuid]

SeqsUpTo(S, n) == UNION { [1..k -> S] : k \in 0..n }

\* QueryInterfaceImpl<IUnknown, Interfaces...>: IUnknown is always first
Registry == <<"IUnknown">> \o Interfaces

Init ==
    /\ header \in Headers
    /\ Interfaces \in SeqsUpTo(IfaceTypes, MaxIfaces)
    /\ built = "source"
    /\ refCountCom = 0
    /\ refCountSharedPtr = 0
    /\ refStarted = FALSE
    /\ refMutex = {}
    /\ freed = FALSE
    /\ deleted = 0
    /\ uaf = FALSE
    /\ aborted = FALSE
    /\ pc = [t \in Threads |-> "idle"]
    /\ inQI = [t \in Threads |-> FALSE]
    /\ qi = [t \in Threads |-> NoArgs]
    /\ ret = NoRet
    /\ dec = [t \in Threads |-> 0]
    /\ slot = "null"
    /\ ext = [t \in Threads |-> 0]
    /\ sh = [t \in Threads |-> 0]
    /\ text = NoText
    /\ edits = 0
    /\ parsed = NotParsed
    /\ twin = NoText
    /\ parsedTwin = NotParsed
    /\ ndebug = FALSE
    /\ strays = 0

(* ------------------------------------------------------------------ *)
(* Compilation                                                        *)
(* ------------------------------------------------------------------ *)
\* a class may not name the same direct base twice
DistinctBases(reg) == \A i, j \in 1..Len(reg) : i # j => reg[i] # reg[j]
\* variant: __guid() without its static_assert
AllGuidsValid_unchecked(reg) == TRUE

\* static_assert in __guid() of every interface QueryInterfaceImpl visits
AllGuidsValid(reg) == \A i \in 1..Len(reg) : GuidValid(reg[i])
\* variant: a compiler that accepted a repeated direct base
Compiles_anyBases(reg) == \A i \in 1..Len(reg) : GuidValid(reg[i])

Compiles(reg) == DistinctBases(reg) /\ AllGuidsValid(reg)

Build ==
    /\ built = "source"
    /\ built' = IF Compiles(Registry) THEN "ok" ELSE "error"
    /\ ret' = NoRet
    /\ UNCHANGED << header, Interfaces, ndebug, obj, pc, inQI, qi, dec, slot,
                    ext, sh, parser, strays >>

(* ------------------------------------------------------------------ *)
(* Callers                                                            *)
(* ------------------------------------------------------------------ *)
\* A thread calls into the object only through a reference it owns; before
\* the first reference exists only the constructing thread has the object.
MayUse(t) ==
    IF refStarted THEN ext[t] + sh[t] > 0
    ELSE t = Creator /\ \A u \in Threads : pc[u] = "idle"

Acquiring == { t \in Threads :
                 pc[t] \in {"AddRef_lock", "AddRef_cs",
                            "shared_ptr_lock", "shared_ptr_cs"} }
Room == refCountCom + refCountSharedPtr + Cardinality(Acquiring) < MaxRefs

CanCall(t) == built = "ok" /\ ~aborted /\ pc[t] = "idle" /\ MayUse(t)

(* ------------------------------------------------------------------ *)
(* std::scoped_lock(refMutex)                                         *)
(* ------------------------------------------------------------------ *)
\* Locking the mutex of an object that "delete this" has freed is undefined:
\* the thread either takes what it finds there for a free mutex or never
\* comes back.
Lock(t, from, to) ==
    /\ ~aborted
    /\ pc[t] = from
    /\ \E go \in (IF freed THEN BOOLEAN ELSE {TRUE}) :
         IF go
         THEN /\ refMutex = {}
              /\ refMutex' = {t}
              /\ pc' = [pc EXCEPT ![t] = to]
         ELSE /\ refMutex' = refMutex
              /\ pc' = [pc EXCEPT ![t] = "ub"]
    /\ uaf' = (uaf \/ freed)
    /\ ret' = NoRet
    /\ UNCHANGED << cfg, parser, strays, refCountCom, refCountSharedPtr, refStarted, freed,
                    deleted, aborted, inQI, qi, dec, slot, ext, sh >>

(* ------------------------------------------------------------------ *)
(* assert, assertAddReference, TryDelete                              *)
(* ------------------------------------------------------------------ *)
\* assert(cond): with NDEBUG defined the macro expands to nothing and the
\* statements after it run whatever cond is
AssertionPasses(cond) == ndebug \/ cond

assertAddReference ==
    IF refStarted
    THEN (refCountCom + refCountSharedPtr) > 0
    ELSE (refCountCom + refCountSharedPtr) = 0

\* variants of TryDelete's condition with one of its tests lost
TryDelete_either(com, shr) == com = 0 \/ shr = 0
TryDelete_never(com, shr) == FALSE
TryDelete_sharedOnly(com, shr) == shr = 0

\* the condition under which TryDelete destructs the guard and deletes this
TryDelete(com, shr) == com = 0 /\ shr = 0

\* the guard's destructor (end of scope, "delete guard") unlocks the mutex
\* the guard of thread t owns
DestructGuard(m, t) == m \ {t}
\* variant: "delete this" with the guard still alive
ResetGuard_kept(m, t) == m

\* TryDelete destructs the guard ("delete guard", guard.reset()) before
\* "delete this"
ResetGuard(m, t) == m \ {t}

\* assert(false): the process aborts
Abort ==
    /\ aborted' = TRUE
    /\ ret' = NoRet
    /\ UNCHANGED << refCountCom, refCountSharedPtr, refStarted, refMutex,
                    freed, deleted, pc, inQI, qi, dec, slot, ext, sh >>

(* ------------------------------------------------------------------ *)
(* AddRef                                                             *)
(* ------------------------------------------------------------------ *)
AddRefCall(t) ==
    /\ CanCall(t)
    /\ Room
    /\ pc' = [pc EXCEPT ![t] = "AddRef_lock"]
    /\ inQI' = [inQI EXCEPT ![t] = FALSE]
    /\ ret' = NoRet
    /\ UNCHANGED << cfg, parser, strays, obj, qi, dec, slot, ext, sh >>

AddRefLock(t) == Lock(t, "AddRef_lock", "AddRef_cs")

\* variant: "return refCountCom++;"
AddRefBody_postIncrement(t) ==
    /\ ~aborted
    /\ pc[t] = "AddRef_cs"
    /\ uaf' = (uaf \/ freed)
    /\ IF AssertionPasses(assertAddReference)
       THEN /\ refStarted' = TRUE
            /\ refCountCom' = refCountCom + 1
            /\ refMutex' = DestructGuard(refMutex, t)
            /\ ret' = IF inQI[t] THEN RetHr(S_OK, qi[t])
                      ELSE Ret("AddRef", refCountCom, 0)
            /\ pc' = [pc EXCEPT ![t] = "idle"]
            /\ inQI' = [inQI EXCEPT ![t] = FALSE]
            /\ qi' = [qi EXCEPT ![t] = NoArgs]
            /\ \E u \in Threads : ext' = [ext EXCEPT ![u] = @ + 1]
            /\ UNCHANGED << refCountSharedPtr, freed, deleted, aborted, dec,
                            slot, sh >>
       ELSE Abort
    /\ UNCHANGED << cfg, parser, strays >>

\* the critical section up to the guard's destructor; the caller keeps the
\* new reference or hands it to another thread
AddRefBody(t) ==
    /\ ~aborted
    /\ pc[t] = "AddRef_cs"
    /\ uaf' = (uaf \/ freed)
    /\ IF AssertionPasses(assertAddReference)
       THEN /\ refStarted' = TRUE
            /\ refCountCom' = refCountCom + 1
            /\ refMutex' = DestructGuard(refMutex, t)
            /\ ret' = IF inQI[t] THEN RetHr(S_OK, qi[t])
                      ELSE Ret("AddRef", refCountCom + 1, 0)
            /\ pc' = [pc EXCEPT ![t] = "idle"]
            /\ inQI' = [inQI EXCEPT ![t] = FALSE]
            /\ qi' = [qi EXCEPT ![t] = NoArgs]
            /\ \E u \in Threads : ext' = [ext EXCEPT ![u] = @ + 1]
            /\ UNCHANGED << refCountSharedPtr, freed, deleted, aborted, dec,
                            slot, sh >>
       ELSE Abort
    /\ UNCHANGED << cfg, parser, strays >>

(* ------------------------------------------------------------------ *)
(* shared_ptr<T>() and the deleter of the handle it returns           *)
(* ------------------------------------------------------------------ *)
SharedPtrCall(t) ==
    /\ CanCall(t)
    /\ Room
    /\ pc' = [pc EXCEPT ![t] = "shared_ptr_lock"]
    /\ ret' = NoRet
    /\ UNCHANGED << cfg, parser, strays, obj, inQI, qi, dec, slot, ext, sh >>

SharedPtrLock(t) == Lock(t, "shared_ptr_lock", "shared_ptr_cs")

\* variant: shared_ptr() without "refStarted = true;"
SharedPtrBody_noStart(t) ==
    /\ ~aborted
    /\ pc[t] = "shared_ptr_cs"
    /\ uaf' = (uaf \/ freed)
    /\ IF AssertionPasses(assertAddReference)
       THEN /\ refStarted' = refStarted
            /\ refCountSharedPtr' = refCountSharedPtr + 1
            /\ refMutex' = DestructGuard(refMutex, t)
            /\ ret' = Ret("shared_ptr", 0, 0)
            /\ pc' = [pc EXCEPT ![t] = "idle"]
            /\ \E u \in Threads : sh' = [sh EXCEPT ![u] = @ + 1]
            /\ UNCHANGED << refCountCom, freed, deleted, aborted, inQI, qi,
                            dec, slot, ext >>
       ELSE Abort
    /\ UNCHANGED << cfg, parser, strays >>

SharedPtrBody(t) ==
    /\ ~aborted
    /\ pc[t] = "shared_ptr_cs"
    /\ uaf' = (uaf \/ freed)
    /\ IF AssertionPasses(assertAddReference)
       THEN /\ refStarted' = TRUE
            /\ refCountSharedPtr' = refCountSharedPtr + 1
            /\ refMutex' = DestructGuard(refMutex, t)
            /\ ret' = Ret("shared_ptr", 0, 0)
            /\ pc' = [pc EXCEPT ![t] = "idle"]
            /\ \E u \in Threads : sh' = [sh EXCEPT ![u] = @ + 1]
            /\ UNCHANGED << refCountCom, freed, deleted, aborted, inQI, qi,
                            dec, slot, ext >>
       ELSE Abort
    /\ UNCHANGED << cfg, parser, strays >>

\* the last copy of a handle goes away: its deleter runs
DeleterCall(t) ==
    /\ built = "ok" /\ ~aborted
    /\ pc[t] = "idle"
    /\ sh[t] > 0
    /\ sh' = [sh EXCEPT ![t] = @ - 1]
    /\ pc' = [pc EXCEPT ![t] = "deleter_lock"]
    /\ ret' = NoRet
    /\ UNCHANGED << cfg, parser, strays, obj, inQI, qi, dec, slot, ext >>

DeleterLock(t) == Lock(t, "deleter_lock", "deleter_cs")

DeleterBody(t) ==
    /\ ~aborted
    /\ pc[t] = "deleter_cs"
    /\ uaf' = (uaf \/ freed)
    /\ IF AssertionPasses(refStarted /\ refCountSharedPtr > 0)
       THEN /\ refCountSharedPtr' = refCountSharedPtr - 1
            /\ IF refCountSharedPtr - 1 = 0
                  /\ TryDelete(refCountCom, refCountSharedPtr - 1)
               THEN /\ refMutex' = ResetGuard(refMutex, t)
                    /\ pc' = [pc EXCEPT ![t] = "deleter_delete"]
                    /\ ret' = NoRet
               ELSE /\ refMutex' = DestructGuard(refMutex, t)
                    /\ pc' = [pc EXCEPT ![t] = "idle"]
                    /\ ret' = Ret("deleter", 0, 0)
            /\ UNCHANGED << refCountCom, refStarted, freed, deleted, aborted,
                            inQI, qi, dec, slot, ext, sh >>
       ELSE Abort
    /\ UNCHANGED << cfg, parser, strays >>

(* ------------------------------------------------------------------ *)
(* Release                                                            *)
(* ------------------------------------------------------------------ *)
\* the caller gives up one of its references
ReleaseCall(t) ==
    /\ built = "ok" /\ ~aborted
    /\ pc[t] = "idle"
    /\ ext[t] > 0
    /\ ext' = [ext EXCEPT ![t] = @ - 1]
    /\ pc' = [pc EXCEPT ![t] = "Release_lock"]
    /\ ret' = NoRet
    /\ UNCHANGED << cfg, parser, strays, obj, inQI, qi, dec, slot, sh >>

ReleaseLock(t) == Lock(t, "Release_lock", "Release_cs")

\* part_000: "return refCountCom;" is evaluated before the unique_ptr guard
\* is destroyed.  pi.h: "delete guard; return refCountCom;" reads the member
\* after the mutex has been unlocked.
ReadsCountUnderLock(h) == h = "part_000"

ReleaseBody(t) ==
    /\ ~aborted
    /\ pc[t] = "Release_cs"
    /\ uaf' = (uaf \/ freed)
    /\ IF AssertionPasses(refStarted /\ refCountCom > 0)
       THEN /\ refCountCom' = refCountCom - 1
            /\ refMutex' = IF refCountCom - 1 = 0
                                /\ TryDelete(refCountCom - 1, refCountSharedPtr)
                           THEN ResetGuard(refMutex, t)
                           ELSE DestructGuard(refMutex, t)
            /\ IF refCountCom - 1 = 0
               THEN IF TryDelete(refCountCom - 1, refCountSharedPtr)
                    THEN /\ pc' = [pc EXCEPT ![t] = "Release_delete"]
                         /\ dec' = [dec EXCEPT ![t] = refCountCom - 1]
                         /\ ret' = NoRet
                    ELSE /\ pc' = [pc EXCEPT ![t] = "idle"]
                         /\ dec' = dec
                         /\ ret' = Ret("Release", 0, refCountCom - 1)
               ELSE IF ReadsCountUnderLock(header)
                    THEN /\ pc' = [pc EXCEPT ![t] = "idle"]
                         /\ dec' = dec
                         /\ ret' = Ret("Release", refCountCom',
                                       refCountCom - 1)
                    ELSE /\ pc' = [pc EXCEPT ![t] = "Release_ret"]
                         /\ dec' = [dec EXCEPT ![t] = refCountCom - 1]
                         /\ ret' = NoRet
            /\ UNCHANGED << refCountSharedPtr, refStarted, freed, deleted,
                            aborted, inQI, qi, slot, ext, sh >>
       ELSE Abort /\ dec' = dec
    /\ UNCHANGED << cfg, parser, strays >>

\* pi.h: "return refCountCom;" with the guard already deleted.  Once the
\* object is freed the read is undefined: it yields whatever the memory
\* holds, or it faults and the call never returns.
ReleaseRet(t) ==
    /\ ~aborted
    /\ pc[t] = "Release_ret"
    /\ uaf' = (uaf \/ freed)
    /\ \/ /\ \E v \in (IF freed THEN (-1)..MaxRefs ELSE {refCountCom}) :
              ret' = Ret("Release", v, dec[t])
          /\ dec' = [dec EXCEPT ![t] = 0]
          /\ pc' = [pc EXCEPT ![t] = "idle"]
       \/ /\ freed
          /\ ret' = NoRet
          /\ dec' = dec
          /\ pc' = [pc EXCEPT ![t] = "ub"]
    /\ UNCHANGED << cfg, parser, strays, refCountCom, refCountSharedPtr, refStarted, refMutex,
                    freed, deleted, aborted, inQI, qi, slot, ext, sh >>

\* TryDelete: "delete this" after the guard has been destructed; Release
\* then returns the hard coded 0
DeleteThis(t) ==
    /\ ~aborted
    /\ pc[t] \in {"Release_delete", "deleter_delete"}
    /\ freed' = TRUE
    /\ deleted' = IF deleted < 2 THEN deleted + 1 ELSE deleted
    /\ uaf' = (uaf \/ freed)
    /\ ret' = IF pc[t] = "Release_delete" THEN Ret("Release", 0, dec[t])
              ELSE Ret("deleter", 0, 0)
    /\ dec' = [dec EXCEPT ![t] = 0]
    /\ pc' = [pc EXCEPT ![t] = "idle"]
    /\ UNCHANGED << cfg, parser, strays, refCountCom, refCountSharedPtr, refStarted, refMutex,
                    aborted, inQI, qi, slot, ext, sh >>

(* ------------------------------------------------------------------ *)
(* QueryInterface                                                     *)
(* ------------------------------------------------------------------ *)
\* variant: the match is cast to the first base instead of I1
RECURSIVE QueryInterfaceImpl_wrongCast(_, _)
QueryInterfaceImpl_wrongCast(reg, guid) ==
    IF GuidEq(guid, GuidOf(Head(reg))) THEN "IUnknown"
    ELSE IF Len(Tail(reg)) > 0 THEN QueryInterfaceImpl_wrongCast(Tail(reg), guid)
    ELSE "none"

\* variant: the exhausted list falls back to the default I1 = IUnknown
RECURSIVE QueryInterfaceImpl_fallback(_, _)
QueryInterfaceImpl_fallback(reg, guid) ==
    IF GuidEq(guid, GuidOf(Head(reg))) THEN Head(reg)
    ELSE IF Len(Tail(reg)) > 0 THEN QueryInterfaceImpl_fallback(Tail(reg), guid)
    ELSE "IUnknown"

\* variant: the rest of the list is searched before I1
RECURSIVE QueryInterfaceImpl_restFirst(_, _)
QueryInterfaceImpl_restFirst(reg, guid) ==
    IF Len(Tail(reg)) > 0 /\ QueryInterfaceImpl_restFirst(Tail(reg), guid) # "none"
    THEN QueryInterfaceImpl_restFirst(Tail(reg), guid)
    ELSE IF GuidEq(guid, GuidOf(Head(reg))) THEN Head(reg)
    ELSE "none"

\* QueryInterfaceImpl<I1, IRest...>: the type whose __guid() equals guid
\* first, "none" when the list is exhausted
RECURSIVE QueryInterfaceImpl(_, _)
QueryInterfaceImpl(reg, guid) ==
    IF GuidEq(guid, GuidOf(Head(reg))) THEN Head(reg)
    ELSE IF Len(Tail(reg)) > 0 THEN QueryInterfaceImpl(Tail(reg), guid)
    ELSE "none"

\* variant: "if (!pguid && !ppvObject)"
NullArgs_both(pguid, ppvObject) == pguid.null /\ ppvObject = "null"

\* "if (!pguid || !ppvObject)"
NullArgs(pguid, ppvObject) == pguid.null \/ ppvObject = "null"

\* the null check and the scan touch no member of the object; on a match
\* pvObject is written and AddRef() is called
QueryInterface(t) ==
    /\ CanCall(t)
    /\ \E pguid \in GuidArgs, ppvObject \in SlotArgs :
         IF NullArgs(pguid, ppvObject)
         THEN /\ ret' = RetHr(E_POINTER, Args(pguid, ppvObject))
              /\ UNCHANGED << pc, inQI, qi, slot >>
         ELSE IF QueryInterfaceImpl(Registry, pguid.g) = "none"
         THEN /\ ret' = RetHr(E_NOINTERFACE, Args(pguid, ppvObject))
              /\ UNCHANGED << pc, inQI, qi, slot >>
         ELSE /\ Room
              /\ slot' = QueryInterfaceImpl(Registry, pguid.g)
              /\ pc' = [pc EXCEPT ![t] = "AddRef_lock"]
              /\ inQI' = [inQI EXCEPT ![t] = TRUE]
              /\ qi' = [qi EXCEPT ![t] = Args(pguid, ppvObject)]
              /\ ret' = NoRet
    /\ UNCHANGED << cfg, parser, strays, obj, dec, ext, sh >>

(* ------------------------------------------------------------------ *)
(* Specification                                                      *)
(* ------------------------------------------------------------------ *)
Next ==
    \/ Build
    \/ \E t \in Threads : QueryInterface(t)
    \/ \E t \in Threads : AddRefCall(t)
    \/ \E t \in Threads : AddRefLock(t)
    \/ \E t \in Threads : AddRefBody(t)
    \/ \E t \in Threads : SharedPtrCall(t)
    \/ \E t \in Threads : SharedPtrLock(t)
    \/ \E t \in Threads : SharedPtrBody(t)
    \/ \E t \in Threads : DeleterCall(t)
    \/ \E t \in Threads : DeleterLock(t)
    \/ \E t \in Threads : DeleterBody(t)
    \/ \E t \in Threads : ReleaseCall(t)
    \/ \E t \in Threads : ReleaseLock(t)
    \/ \E t \in Threads : ReleaseBody(t)
    \/ \E t \in Threads : ReleaseRet(t)
    \/ \E t \in Threads : DeleteThis(t)

Spec == Init /\ [][Next]_vars

(* ------------------------------------------------------------------ *)
(* N references, N threads, each calls Release once                   *)
(* ------------------------------------------------------------------ *)
InitRelease ==
    /\ header \in Headers
    /\ Interfaces \in { r \in SeqsUpTo(IfaceTypes, MaxIfaces) :
                          Compiles(<<"IUnknown">> \o r) }
    /\ built = "ok"
    /\ \E n \in 1..NThreads :
         /\ refCountCom = n
         /\ ext = [t \in Threads |-> IF t <= n THEN 1 ELSE 0]
    /\ refCountSharedPtr = 0
    /\ refStarted = TRUE
    /\ refMutex = {}
    /\ freed = FALSE
    /\ deleted = 0
    /\ uaf = FALSE
    /\ aborted = FALSE
    /\ pc = [t \in Threads |-> "idle"]
    /\ inQI = [t \in Threads |-> FALSE]
    /\ qi = [t \in Threads |-> NoArgs]
    /\ ret = NoRet
    /\ dec = [t \in Threads |-> 0]
    /\ slot = "null"
    /\ sh = [t \in Threads |-> 0]
    /\ text = NoText
    /\ edits = 0
    /\ parsed = NotParsed
    /\ twin = NoText
    /\ parsedTwin = NotParsed
    /\ ndebug = FALSE
    /\ strays = 0

NextRelease ==
    \/ \E t \in Threads : ReleaseCall(t)
    \/ \E t \in Threads : ReleaseLock(t)
    \/ \E t \in Threads : ReleaseBody(t)
    \/ \E t \in Threads : ReleaseRet(t)
    \/ \E t \in Threads : DeleteThis(t)

SpecRelease == InitRelease /\ [][NextRelease]_vars

(* ------------------------------------------------------------------ *)
(* Fair scheduling                                                    *)
(* ------------------------------------------------------------------ *)
\* a thread inside a call keeps running, and a thread that finds the mutex
\* free again and again eventually gets it; whether and when the callers
\* make a call is up to them
Fairness ==
    \A t \in Threads :
        /\ SF_vars(AddRefLock(t)) /\ WF_vars(AddRefBody(t))
        /\ SF_vars(SharedPtrLock(t)) /\ WF_vars(SharedPtrBody(t))
        /\ SF_vars(DeleterLock(t)) /\ WF_vars(DeleterBody(t))
        /\ SF_vars(ReleaseLock(t)) /\ WF_vars(ReleaseBody(t))
        /\ WF_vars(ReleaseRet(t)) /\ WF_vars(DeleteThis(t))

SpecFair == Init /\ [][Next]_vars /\ Fairness

(* ------------------------------------------------------------------ *)
(* Callers that break the protocol                                    *)
(* ------------------------------------------------------------------ *)
\* Release() by a thread that owns no COM reference
StrayRelease(t) ==
    /\ built = "ok" /\ ~aborted
    /\ pc[t] = "idle"
    /\ ext[t] = 0
    /\ strays < MaxStrays
    /\ strays' = strays + 1
    /\ pc' = [pc EXCEPT ![t] = "Release_lock"]
    /\ ret' = NoRet
    /\ UNCHANGED << cfg, parser, obj, inQI, qi, dec, slot, ext, sh >>

\* AddRef() on a started object by a thread that owns no reference to it
StrayAddRef(t) ==
    /\ built = "ok" /\ ~aborted
    /\ pc[t] = "idle"
    /\ refStarted /\ ext[t] + sh[t] = 0
    /\ Room
    /\ strays < MaxStrays
    /\ strays' = strays + 1
    /\ pc' = [pc EXCEPT ![t] = "AddRef_lock"]
    /\ inQI' = [inQI EXCEPT ![t] = FALSE]
    /\ ret' = NoRet
    /\ UNCHANGED << cfg, parser, obj, qi, dec, slot, ext, sh >>

\* shared_ptr() on a started object by a thread that owns no reference to it
StraySharedPtr(t) ==
    /\ built = "ok" /\ ~aborted
    /\ pc[t] = "idle"
    /\ refStarted /\ ext[t] + sh[t] = 0
    /\ Room
    /\ strays < MaxStrays
    /\ strays' = strays + 1
    /\ pc' = [pc EXCEPT ![t] = "shared_ptr_lock"]
    /\ ret' = NoRet
    /\ UNCHANGED << cfg, parser, obj, inQI, qi, dec, slot, ext, sh >>

\* a compiled UnknownImpl<> just constructed, in a build with or without
\* NDEBUG
InitMisuse ==
    /\ header \in Headers
    /\ Interfaces = << >>
    /\ built = "ok"
    /\ ndebug \in BOOLEAN
    /\ refCountCom = 0
    /\ refCountSharedPtr = 0
    /\ refStarted = FALSE
    /\ refMutex = {}
    /\ freed = FALSE
    /\ deleted = 0
    /\ uaf = FALSE
    /\ aborted = FALSE
    /\ pc = [t \in Threads |-> "idle"]
    /\ inQI = [t \in Threads |-> FALSE]
    /\ qi = [t \in Threads |-> NoArgs]
    /\ ret = NoRet
    /\ dec = [t \in Threads |-> 0]
    /\ slot = "null"
    /\ ext = [t \in Threads |-> 0]
    /\ sh = [t \in Threads |-> 0]
    /\ text = NoText
    /\ edits = 0
    /\ parsed = NotParsed
    /\ twin = NoText
    /\ parsedTwin = NotParsed
    /\ strays = 0

NextMisuse ==
    \/ \E t \in Threads : StrayRelease(t)
    \/ \E t \in Threads : StrayAddRef(t)
    \/ \E t \in Threads : StraySharedPtr(t)
    \/ \E t \in Threads : AddRefCall(t)
    \/ \E t \in Threads : AddRefLock(t)
    \/ \E t \in Threads : AddRefBody(t)
    \/ \E t \in Threads : SharedPtrCall(t)
    \/ \E t \in Threads : SharedPtrLock(t)
    \/ \E t \in Threads : SharedPtrBody(t)
    \/ \E t \in Threads : DeleterCall(t)
    \/ \E t \in Threads : DeleterLock(t)
    \/ \E t \in Threads : DeleterBody(t)
    \/ \E t \in Threads : ReleaseCall(t)
    \/ \E t \in Threads : ReleaseLock(t)
    \/ \E t \in Threads : ReleaseBody(t)
    \/ \E t \in Threads : ReleaseRet(t)
    \/ \E t \in Threads : DeleteThis(t)

SpecMisuse == InitMisuse /\ [][NextMisuse]_vars

(* ------------------------------------------------------------------ *)
(* string_to_guid on its own: char arrays made out of the IID texts   *)
(* ------------------------------------------------------------------ *)
IidTexts == { IUnknown_IID, IFoo_IID, IFooAlias_IID }
\* values of a char: plain char is signed on some targets (-128..127) and
\* unsigned on others (0..255)
TestChars == { -1, 0, 45, 56, 70, 71, 102, 103, 200 }
\* what the byte found outside the table stands for: a digit 0, a digit 15
\* or no digit
JunkChars == { 48, 102, 64 }

\* the array as the parser sees it when every read outside the table
\* yields hex2bin[j]
Subst(s, j) ==
    [i \in 1..Len(s) |-> IF InTable(s[i]) \/ s[i] > 102 THEN s[i] ELSE j]

InitParse ==
    /\ header \in Headers
    /\ Interfaces = << >>
    /\ built = "source"
    /\ refCountCom = 0
    /\ refCountSharedPtr = 0
    /\ refStarted = FALSE
    /\ refMutex = {}
    /\ freed = FALSE
    /\ deleted = 0
    /\ uaf = FALSE
    /\ aborted = FALSE
    /\ pc = [t \in Threads |-> "idle"]
    /\ inQI = [t \in Threads |-> FALSE]
    /\ qi = [t \in Threads |-> NoArgs]
    /\ ret = NoRet
    /\ dec = [t \in Threads |-> 0]
    /\ slot = "null"
    /\ ext = [t \in Threads |-> 0]
    /\ sh = [t \in Threads |-> 0]
    /\ text \in IidTexts
    /\ edits = 0
    /\ parsed = NotParsed
    /\ twin = NoText
    /\ parsedTwin = NotParsed
    /\ ndebug = FALSE
    /\ strays = 0

\* one char of the string is overwritten, the terminator stays
SetChar(p, c) ==
    /\ ~parsed.called /\ edits = 0
    /\ p \in 0..(Len(text) - 2)
    /\ text' = [text EXCEPT ![p + 1] = c]
    /\ edits' = edits + 1
    /\ UNCHANGED << cfg, obj, pc, inQI, qi, ret, dec, slot, ext, sh, parsed,
                    twin, parsedTwin, strays >>

\* the string is cut to its first k chars
Truncate(k) ==
    /\ ~parsed.called /\ edits = 0
    /\ k < Len(text) - 1
    /\ text' = SubSeq(text, 1, k) \o << 0 >>
    /\ edits' = edits + 1
    /\ UNCHANGED << cfg, obj, pc, inQI, qi, ret, dec, slot, ext, sh, parsed,
                    twin, parsedTwin, strays >>

\* the string is made one char longer
Extend(c) ==
    /\ ~parsed.called /\ edits = 0
    /\ c # 0
    /\ text' = SubSeq(text, 1, Len(text) - 1) \o << c, 0 >>
    /\ edits' = edits + 1
    /\ UNCHANGED << cfg, obj, pc, inQI, qi, ret, dec, slot, ext, sh, parsed,
                    twin, parsedTwin, strays >>

\* string_to_guid(text, id) / string_to_guid(text).  A read outside the
\* table is undefined: it yields some byte.
Parse ==
    /\ ~parsed.called
    /\ \E j \in JunkChars :
         parsed' = [called |-> TRUE,
                    oob |-> CheckLoop(text, 0) = "oob",
                    last |-> LastRead(Subst(text, j), 0),
                    status |-> string_to_guid(Subst(text, j)).status,
                    id |-> string_to_guid(Subst(text, j)).id]
    /\ UNCHANGED << cfg, obj, pc, inQI, qi, ret, dec, slot, ext, sh, text,
                    edits, twin, parsedTwin, strays >>

NextParse ==
    \/ \E p \in 0..36, c \in TestChars : SetChar(p, c)
    \/ \E k \in 0..35 : Truncate(k)
    \/ \E c \in TestChars : Extend(c)
    \/ Parse

SpecParse == InitParse /\ [][NextParse]_vars

(* ------------------------------------------------------------------ *)
(* string_to_guid on two texts: an IID text and a variant of it       *)
(* ------------------------------------------------------------------ *)
\* the same hex digit in the other case; any other char as it is
Recased(c) ==
    IF c \in 97..102 THEN c - 32 ELSE IF c \in 65..70 THEN c + 32 ELSE c
\* the digits written into the variant
DigitChars == { 56, 70, 102 }

InitPair ==
    /\ header \in Headers
    /\ Interfaces = << >>
    /\ built = "source"
    /\ ndebug = FALSE
    /\ refCountCom = 0
    /\ refCountSharedPtr = 0
    /\ refStarted = FALSE
    /\ refMutex = {}
    /\ freed = FALSE
    /\ deleted = 0
    /\ uaf = FALSE
    /\ aborted = FALSE
    /\ pc = [t \in Threads |-> "idle"]
    /\ inQI = [t \in Threads |-> FALSE]
    /\ qi = [t \in Threads |-> NoArgs]
    /\ ret = NoRet
    /\ dec = [t \in Threads |-> 0]
    /\ slot = "null"
    /\ ext = [t \in Threads |-> 0]
    /\ sh = [t \in Threads |-> 0]
    /\ text \in IidTexts
    /\ edits = 0
    /\ parsed = NotParsed
    /\ twin = text
    /\ parsedTwin = NotParsed
    /\ strays = 0

\* no digit of the variant has been replaced
DigitsKept ==
    \A i \in 1..Len(twin) : twin[i] \in { text[i], Recased(text[i]) }

\* one letter of the variant changes its case
Recase(p) ==
    /\ ~parsed.called /\ edits < MaxRecase
    /\ DigitsKept
    /\ p \in 0..(Len(twin) - 2)
    /\ Recased(twin[p + 1]) # twin[p + 1]
    /\ twin' = [twin EXCEPT ![p + 1] = Recased(twin[p + 1])]
    /\ edits' = edits + 1
    /\ UNCHANGED << cfg, obj, pc, inQI, qi, ret, dec, slot, ext, sh, text,
                    parsed, parsedTwin, strays >>

\* one digit of the variant is replaced by a digit of another value, once
Redigit(p, c) ==
    /\ ~parsed.called /\ edits < MaxRecase
    /\ DigitsKept
    /\ p \in 0..(Len(twin) - 2)
    /\ twin[p + 1] # 45
    /\ c \notin { twin[p + 1], Recased(twin[p + 1]) }
    /\ twin' = [twin EXCEPT ![p + 1] = c]
    /\ UNCHANGED << cfg, obj, pc, inQI, qi, ret, dec, slot, ext, sh, text,
                    edits, parsed, parsedTwin, strays >>

\* string_to_guid on both texts
ParsePair ==
    /\ ~parsed.called
    /\ LET r == string_to_guid(text)
           q == string_to_guid(twin)
       IN  /\ parsed' = [called |-> TRUE, oob |-> CheckLoop(text, 0) = "oob",
                         last |-> LastRead(text, 0),
                         status |-> r.status, id |-> r.id]
           /\ parsedTwin' = [called |-> TRUE, oob |-> CheckLoop(twin, 0) = "oob",
                             last |-> LastRead(twin, 0),
                             status |-> q.status, id |-> q.id]
    /\ UNCHANGED << cfg, obj, pc, inQI, qi, ret, dec, slot, ext, sh, text,
                    edits, twin, strays >>

NextPair ==
    \/ \E p \in 0..35 : Recase(p)
    \/ \E p \in 0..35, c \in DigitChars : Redigit(p, c)
    \/ ParsePair

SpecPair == InitPair /\ [][NextPair]_vars

(* ------------------------------------------------------------------ *)
(* Vocabulary of the properties                                       *)
(* ------------------------------------------------------------------ *)
LockPcs == {"AddRef_lock", "shared_ptr_lock", "Release_lock", "deleter_lock"}
CsPcs == {"AddRef_cs", "shared_ptr_cs", "Release_cs", "deleter_cs"}
DeletePcs == {"Release_delete", "deleter_delete"}
\* threads that have decided to destroy the object and not yet deleted it
Deciding == { t \in Threads : pc[t] \in DeletePcs }
\* a reference some thread owns, or is giving up and has not yet decremented
Outstanding ==
    \E t \in Threads :
        \/ ext[t] > 0
        \/ sh[t] > 0
        \/ pc[t] \in {"Release_lock", "Release_cs", "deleter_lock", "deleter_cs"}
Quiescent == \A t \in Threads : pc[t] = "idle" /\ ext[t] = 0 /\ sh[t] = 0

\* steps
ReleaseReturns(t) ==
    pc[t] \in {"Release_cs", "Release_ret", "Release_delete"} /\ pc'[t] = "idle"
ReleaseDecrements(t) == pc[t] = "Release_cs" /\ pc'[t] # "Release_cs"
DeleterDecrements(t) == pc[t] = "deleter_cs" /\ pc'[t] # "deleter_cs"
QIStarts(t) == pc[t] = "idle" /\ inQI'[t]
QIReturnsOK(t) == pc[t] = "AddRef_cs" /\ inQI[t] /\ pc'[t] = "idle"
QIFails(t) ==
    /\ pc[t] = "idle" /\ pc'[t] = "idle"
    /\ ret'.fn = "QueryInterface" /\ ret'.hr # S_OK
CountersUnchanged ==
    /\ refCountCom' = refCountCom
    /\ refCountSharedPtr' = refCountSharedPtr
    /\ refStarted' = refStarted

Matches(T, g) == GuidBytes(GuidOf(T)) = GuidBytes(g)
InRegistry(g) == \E i \in 1..Len(Registry) : Matches(Registry[i], g)
FirstMatch(g) ==
    Registry[CHOOSE i \in 1..Len(Registry) :
                 /\ Matches(Registry[i], g)
                 /\ \A j \in 1..(i - 1) : ~Matches(Registry[j], g)]
SharedIdentifier ==
    \E i, j \in 1..Len(Registry) :
        i # j /\ GuidBytes(GuidOf(Registry[i])) = GuidBytes(GuidOf(Registry[j]))

(* ------------------------------------------------------------------ *)
(* Properties                                                         *)
(* ------------------------------------------------------------------ *)

\* C1: in balanced use the object is destroyed exactly once, by the thread
\* whose decrement left both counters 0: never while a reference is
\* outstanding, never twice, and always once both counters are 0 after a start.
C1_DestroyedExactlyOnce ==
    /\ deleted + Cardinality(Deciding) <= 1
    /\ freed <=> deleted = 1
    /\ (freed \/ Deciding # {}) =>
          refCountCom = 0 /\ refCountSharedPtr = 0 /\ ~Outstanding
    /\ (refStarted /\ refCountCom = 0 /\ refCountSharedPtr = 0) =>
          (freed \/ Deciding # {})
    /\ (refStarted /\ Quiescent) => freed

\* the object was used through both kinds of reference and the drop of the
\* last shared handle destroyed it
C1_Witness ==
    freed /\ deleted = 1 /\ ret.fn = "deleter" /\ header = "part_000"

\* C2: N references, N concurrent Release calls: every call returns the value
\* its own decrement left, so the values are N-1 .. 0 in lock order; the call
\* returning 0 is the one that destroys the object, which happens once.
C2_ConcurrentRelease ==
    /\ [](refCountCom =
             Cardinality({ t \in Threads :
                             ext[t] > 0
                             \/ pc[t] \in {"Release_lock", "Release_cs"} }))
    /\ [](deleted + Cardinality(Deciding) <= 1)
    /\ [][\A t \in Threads :
            ReleaseReturns(t) =>
              /\ ret'.fn = "Release"
              /\ ret'.v = ret'.own
              /\ (ret'.v = 0) <=>
                   (pc[t] = "Release_delete" /\ freed' /\ deleted' = 1)]_vars

\* C3 as stated: a Release that returns 0 has destroyed the object.
C3_ZeroMeansDestroyed ==
    [][\A t \in Threads : (ReleaseReturns(t) /\ ret'.v = 0) => freed']_vars

\* C3 amended: when Release returns 0 the object is destroyed, or its
\* destruction is decided, or shared handles are outstanding and keep it
\* alive; the Release whose own decrement reached 0 destroys the object
\* exactly when sharedCount is 0.
C3_ZeroMeansDestroyedOrShared ==
    [][\A t \in Threads :
         (ReleaseReturns(t) /\ ret'.v = 0) =>
           /\ freed' \/ Deciding' # {} \/ refCountSharedPtr' > 0
           /\ pc[t] = "Release_cs" =>
                ~freed' /\ refCountCom' = 0 /\ refCountSharedPtr' > 0
           /\ pc[t] = "Release_delete" => freed' /\ refCountSharedPtr' = 0]_vars

\* Release has returned 0 and the object lives on through a shared handle
C3_Witness ==
    /\ ret.fn = "Release" /\ ret.v = 0 /\ ret.own = 0
    /\ ~freed /\ refCountCom = 0 /\ refCountSharedPtr > 0

\* C4: no member of the object is read, written or locked after "delete this".
C4_NoUseAfterFree == ~uaf

\* C5: the decision to destroy is taken with the lock held by the deciding
\* thread, and once the object is being deallocated nobody holds the lock or
\* waits for it.
C5_LockReleasedBeforeDelete ==
    /\ \A t \in Threads : pc[t] \in CsPcs => refMutex = {t}
    /\ (freed \/ Deciding # {}) =>
          /\ refMutex = {}
          /\ \A t \in Threads : pc[t] \notin (LockPcs \cup CsPcs)

\* a thread has decided the destruction and is about to delete the object
C5_Witness == \E t \in Threads : pc[t] = "deleter_delete" /\ ~freed

\* C6: a handle dropped while externalCount >= 1 decrements sharedCount only
\* and destroys nothing; a Release to 0 while sharedCount >= 1 destroys
\* nothing either; the release of the last reference of the other kind then
\* destroys the object.
C6_OtherKindKeepsAlive ==
    [][\A t \in Threads :
         /\ (DeleterDecrements(t) /\ refCountCom >= 1) =>
              /\ refCountSharedPtr' = refCountSharedPtr - 1
              /\ refCountCom' = refCountCom
              /\ pc'[t] = "idle" /\ ~freed' /\ Deciding' = {}
         /\ (ReleaseDecrements(t) /\ refCountCom = 1 /\ refCountSharedPtr >= 1) =>
              /\ refCountCom' = 0
              /\ refCountSharedPtr' = refCountSharedPtr
              /\ pc'[t] = "idle" /\ ~freed' /\ Deciding' = {}
         /\ (DeleterDecrements(t) /\ refCountCom = 0 /\ refCountSharedPtr = 1) =>
              pc'[t] = "deleter_delete"
         /\ (ReleaseDecrements(t) /\ refCountCom = 1 /\ refCountSharedPtr = 0) =>
              pc'[t] = "Release_delete"
         /\ (pc[t] \in DeletePcs /\ pc'[t] = "idle") => freed']_vars

\* the last shared handle has been dropped, the object lives on through a
\* COM reference
C6_Witness ==
    /\ ret.fn = "deleter" /\ ~freed /\ Deciding = {}
    /\ refCountCom >= 1 /\ refCountSharedPtr = 0

\* C7: QueryInterface with non-null arguments and an identifier of the
\* registry writes the object cast to an interface with that identifier into
\* the slot, adds exactly 1 to externalCount, leaves sharedCount alone and
\* returns OK.
C7_LookupSucceeds ==
    [][\A t \in Threads :
         /\ QIStarts(t) =>
              /\ \E i \in 1..Len(Registry) : slot' = Registry[i]
              /\ Matches(slot', qi'[t].pguid.g)
              /\ CountersUnchanged
         /\ QIReturnsOK(t) =>
              /\ ret'.fn = "QueryInterface"
              /\ ret'.hr = Word32(0, 0)
              /\ ret'.args = qi[t]
              /\ refCountCom' = refCountCom + 1
              /\ refCountSharedPtr' = refCountSharedPtr
              /\ slot' = slot
         /\ (QIFails(t) /\ ~ret'.args.pguid.null /\ ret'.args.ppvObject # "null")
              => ~InRegistry(ret'.args.pguid.g)]_vars

\* a lookup of IFoo's identifier has returned OK
C7_Witness ==
    /\ ret.fn = "QueryInterface" /\ ret.hr = S_OK
    /\ ret.args.pguid.g = GuidOf("IFoo")
    /\ slot \in {"IFoo", "IFooAlias"} /\ refCountCom >= 1

\* C8: QueryInterface with non-null arguments and an identifier no registry
\* entry carries returns InterfaceNotFound (0x80004002) and changes neither
\* the slot nor the counters nor started; such an identifier never succeeds.
C8_LookupNotFound ==
    [][\A t \in Threads :
         /\ (QIFails(t) /\ ~ret'.args.pguid.null /\ ret'.args.ppvObject # "null")
              => /\ ret'.hr = Word32(32768, 16386)
                 /\ ~InRegistry(ret'.args.pguid.g)
                 /\ slot' = slot
                 /\ CountersUnchanged
         /\ QIStarts(t) => InRegistry(qi'[t].pguid.g)
         /\ QIReturnsOK(t) => InRegistry(ret'.args.pguid.g)]_vars

\* an unknown identifier was looked up while the slot held an older pointer
C8_Witness ==
    /\ ret.fn = "QueryInterface" /\ ret.hr = E_NOINTERFACE
    /\ slot # "null" /\ refStarted /\ refCountCom >= 1

\* C9: QueryInterface with a null pguid or a null ppvObject returns
\* NullPointer (0x80004003), changes neither the counters, started nor the
\* slot and never takes the lock; no other call returns NullPointer.
C9_NullArguments ==
    [][\A t \in Threads :
         /\ (QIFails(t) /\ (ret'.args.pguid.null \/ ret'.args.ppvObject = "null"))
              => /\ ret'.hr = Word32(32768, 16387)
                 /\ slot' = slot
                 /\ CountersUnchanged
                 /\ refMutex' = refMutex
                 /\ pc' = pc
         /\ (QIFails(t) /\ ~ret'.args.pguid.null /\ ret'.args.ppvObject # "null")
              => ret'.hr # Word32(32768, 16387)
         /\ QIStarts(t) => ~qi'[t].pguid.null /\ qi'[t].ppvObject # "null"]_vars

\* a null pguid was passed together with a slot that holds a pointer
C9_Witness ==
    /\ ret.fn = "QueryInterface" /\ ret.hr = E_POINTER
    /\ ret.args.pguid.null /\ ret.args.ppvObject = "slot"
    /\ slot # "null" /\ refCountCom >= 1

C13_BadTextNeverUsed ==
    /\ built = "ok" =>
          \A i \in 1..Len(Registry) :
              /\ Parsed(Registry[i]).status = "ok"
              /\ GuidOf(Registry[i]) # ZeroGuid
    /\ (\E i \in 1..Len(Registry) : Parsed(Registry[i]).status # "ok") =>
          /\ built # "ok"
          /\ ~refStarted /\ slot = "null" /\ ret = NoRet
          /\ \A t \in Threads : pc[t] = "idle" /\ ext[t] = 0 /\ sh[t] = 0
    /\ slot # "null" => Parsed(slot).status = "ok"

\* the build of a registry of distinct types, one of them with a text that
\* does not parse, has ended in an error
C13_Witness ==
    /\ built = "error"
    /\ \E i \in 1..Len(Interfaces) : Interfaces[i] = "IBad"
    /\ \A i, j \in 1..Len(Registry) : i # j => Registry[i] # Registry[j]

\* steps
AddRefReturns(t) == pc[t] = "AddRef_cs" /\ pc'[t] = "idle"
SharedPtrReturns(t) == pc[t] = "shared_ptr_cs" /\ pc'[t] = "idle"

\* C14: the object is constructed with both counters 0 and started false;
\* while started is false both counters are 0; every step that increments a
\* counter sets started in the same critical section.
C14_NotStartedMeansZero ==
    /\ (~refStarted /\ refCountCom = 0 /\ refCountSharedPtr = 0)
    /\ [](~refStarted => (refCountCom = 0 /\ refCountSharedPtr = 0))
    /\ [][(refCountCom' > refCountCom \/ refCountSharedPtr' > refCountSharedPtr)
            => /\ refStarted'
               /\ \E t \in Threads :
                    /\ refMutex = {t} /\ refMutex' = {}
                    /\ AddRefReturns(t) \/ SharedPtrReturns(t)]_vars

\* the first shared_ptr() call is inside its critical section: the object is
\* not started yet
C14_Witness ==
    /\ ~refStarted /\ refCountCom = 0 /\ refCountSharedPtr = 0
    /\ \E t \in Threads : pc[t] = "shared_ptr_cs" /\ refMutex = {t}

\* C15 as stated: started never falls back to false, and whenever the object
\* is started, not destroyed and its lock is free, externalCount +
\* sharedCount > 0 with both counters >= 0.
C15_PositiveWhileLockFree ==
    /\ [][refStarted => refStarted']_vars
    /\ []((refStarted /\ ~freed /\ refMutex = {}) =>
            /\ refCountCom + refCountSharedPtr > 0
            /\ refCountCom >= 0 /\ refCountSharedPtr >= 0)

\* C15 amended: started never falls back to false; whenever the object is
\* started, its lock is free and no thread has decided the destruction,
\* either it is destroyed or externalCount + sharedCount > 0; both counters
\* are >= 0 throughout.  Between the release of the lock in TryDelete and
\* "delete this" the object is started, not destroyed, its lock is free and
\* both counters are 0.
C15_PositiveUntilDecided ==
    /\ [][refStarted => refStarted']_vars
    /\ [](refCountCom >= 0 /\ refCountSharedPtr >= 0)
    /\ []((refStarted /\ ~freed /\ refMutex = {} /\ Deciding = {}) =>
            refCountCom + refCountSharedPtr > 0)
    /\ []((Deciding # {} /\ ~freed) =>
            /\ refStarted /\ refMutex = {}
            /\ refCountCom + refCountSharedPtr = 0)

\* a Release that left references has returned: the object is started,
\* alive and its lock is free
C15_Witness ==
    /\ ret.fn = "Release" /\ ret.own > 0
    /\ refStarted /\ ~freed /\ refMutex = {} /\ Deciding = {}
    /\ \A t \in Threads : pc[t] = "idle"

\* C18: QueryInterface scans IUnknown first and then the declared interfaces
\* in their order; the first entry with the requested Identifier is the one
\* written to the slot, and the call acquires exactly once however many later
\* entries match.
C18_FirstMatchWins ==
    [][\A t \in Threads :
         /\ QIStarts(t) =>
              /\ \E i \in 1..Len(Registry) :
                   /\ slot' = Registry[i]
                   /\ Matches(Registry[i], qi'[t].pguid.g)
                   /\ \A j \in 1..(i - 1) : ~Matches(Registry[j], qi'[t].pguid.g)
              /\ Matches("IUnknown", qi'[t].pguid.g) => slot' = "IUnknown"
              /\ pc'[t] = "AddRef_lock"
              /\ CountersUnchanged
         /\ (inQI[t] /\ pc'[t] # pc[t]) =>
              \/ pc[t] = "AddRef_lock" /\ pc'[t] = "AddRef_cs" /\ inQI'[t]
                   /\ CountersUnchanged
              \/ pc[t] = "AddRef_cs" /\ pc'[t] = "idle" /\ ~inQI'[t]
                   /\ refCountCom' = refCountCom + 1
                   /\ ret'.fn = "QueryInterface"]_vars

\* two entries carry the requested Identifier: the lookup has returned the
\* first one, and the count is the creator's reference plus one
C18_Witness ==
    /\ Interfaces = << "IFooAlias", "IFoo" >>
    /\ ret.fn = "QueryInterface" /\ ret.hr = S_OK
    /\ ret.args.pguid.g = GuidOf("IFoo")
    /\ slot = "IFooAlias" /\ refCountCom = 2

\* C19: AddRef sets started, adds exactly 1 to externalCount, returns the
\* count its own increment produced and leaves sharedCount alone;
\* shared_ptr() sets started, adds exactly 1 to sharedCount and leaves
\* externalCount alone; started becomes true by one of these two only.
C19_AcquireFrame ==
    [][/\ \A t \in Threads :
            /\ AddRefReturns(t) =>
                 /\ ~freed /\ refMutex = {t}
                 /\ refStarted'
                 /\ refCountCom' = refCountCom + 1
                 /\ refCountSharedPtr' = refCountSharedPtr
                 /\ ~inQI[t] =>
                      /\ ret'.fn = "AddRef"
                      /\ ret'.v = refCountCom + 1 /\ ret'.v = refCountCom'
            /\ SharedPtrReturns(t) =>
                 /\ ~freed /\ refMutex = {t}
                 /\ refStarted'
                 /\ refCountSharedPtr' = refCountSharedPtr + 1
                 /\ refCountCom' = refCountCom
       /\ (~refStarted /\ refStarted') =>
            \E t \in Threads : AddRefReturns(t) \/ SharedPtrReturns(t)]_vars

\* an AddRef on an object that is alive through a shared handle only has
\* returned 1
C19_Witness ==
    /\ ret.fn = "AddRef" /\ ret.v = 1
    /\ refCountCom = 1 /\ refCountSharedPtr >= 1 /\ refStarted

\* a step of thread t out of the critical section it is in, or its abort
LeavesCs(t) == pc'[t] # pc[t] \/ aborted'
AbortsUnchanged ==
    /\ aborted'
    /\ CountersUnchanged
    /\ ~freed' /\ deleted' = deleted /\ Deciding' = Deciding
    /\ ret' = NoRet
    /\ pc' = pc

\* C16: Release on a live object whose externalCount is 0 or that was never
\* started, and AddRef / shared_ptr() on a started object whose counters are
\* both 0, end in an abort before any counter is touched: no counter goes
\* negative, nothing is destroyed and nothing is returned.
C16_ViolationAborts ==
    /\ [](refCountCom >= 0 /\ refCountSharedPtr >= 0)
    /\ [][\A t \in Threads :
            /\ (/\ pc[t] = "Release_cs" /\ ~freed
                /\ ~refStarted \/ refCountCom = 0
                /\ LeavesCs(t)) => AbortsUnchanged
            /\ (/\ pc[t] \in {"AddRef_cs", "shared_ptr_cs"} /\ ~freed
                /\ refStarted /\ refCountCom + refCountSharedPtr = 0
                /\ LeavesCs(t)) => AbortsUnchanged]_vars

\* C17: under fair scheduling every call returns: a thread in its critical
\* section is the one owner of the lock, every lock taken is released, and
\* once no reference is left the object gets destroyed.
C17_EveryCallReturns ==
    /\ [](\A t \in Threads : pc[t] \in CsPcs => refMutex = {t})
    /\ \A t \in Threads : (pc[t] # "idle") ~> (pc[t] = "idle")
    /\ \A t \in Threads : (refMutex = {t}) ~> (refMutex = {})
    /\ (refStarted /\ ~Outstanding) ~> freed

(* ------------------------------------------------------------------ *)
(* Properties of string_to_guid                                       *)
(* ------------------------------------------------------------------ *)
DashAt == {8, 13, 18, 23}
IsHexDigit(c) == c \in (48..57) \cup (65..70) \cup (97..102)
\* 36 chars of the form 8-4-4-4-12 and the terminator
Canonical(s) ==
    /\ Len(s) >= 37
    /\ s[37] = 0
    /\ \A i \in 0..35 :
         IF i \in DashAt THEN s[i + 1] = 45 ELSE IsHexDigit(s[i + 1])
\* the value of a hex digit, of the 2 digits at i and of the 4 digits at i
DigitValue(c) == IF c <= 57 THEN c - 48 ELSE IF c <= 70 THEN c - 55 ELSE c - 87
Val2(s, i) == 16 * DigitValue(s[i + 1]) + DigitValue(s[i + 2])
Val4(s, i) == 256 * Val2(s, i) + Val2(s, i + 2)

\* C11: string_to_guid fails for every terminated input that is not 36
\* chars of the form 8-4-4-4-12 hex digits, whatever values its chars hold.
C11_MalformedRejected ==
    (parsed.called /\ ~Canonical(text)) => parsed.status = "fail"

\* C12: for every canonical text string_to_guid succeeds and the result is
\* the big-endian decoding of the digits: 0-7 Data1, 9-12 Data2, 14-17 Data3,
\* 19-22 Data4[0..1], 24-35 Data4[2..7], each byte 16 * high + low digit;
\* the text of IUnknown gives 0, 0, 0 and C0 00 00 00 00 00 00 46.
C12_DecodesBigEndian ==
    /\ (parsed.called /\ Canonical(text)) =>
          /\ parsed.status = "ok" /\ ~parsed.oob
          /\ parsed.id.Data1.hi = Val4(text, 0)
          /\ parsed.id.Data1.lo = Val4(text, 4)
          /\ parsed.id.Data2 = Val4(text, 9)
          /\ parsed.id.Data3 = Val4(text, 14)
          /\ parsed.id.Data4 =
                << Val2(text, 19), Val2(text, 21), Val2(text, 24),
                   Val2(text, 26), Val2(text, 28), Val2(text, 30),
                   Val2(text, 32), Val2(text, 34) >>
    /\ (parsed.called /\ text = IUnknown_IID) =>
          parsed.id = [Data1 |-> [hi |-> 0, lo |-> 0], Data2 |-> 0, Data3 |-> 0,
                       Data4 |-> << 192, 0, 0, 0, 0, 0, 0, 70 >>]

\* a canonical text other than the IID texts, with two different digits in
\* one byte of Data4, has been parsed
C12_Witness ==
    /\ parsed.called /\ Canonical(text) /\ text \notin IidTexts
    /\ parsed.status = "ok"
    /\ parsed.id.Data4[1] = 200

\* C20: for every canonical text, also with a first digit 8..F, Data1 is the
\* unsigned value of the first 8 digits: the shift by 28 in int arithmetic and
\* the store into the unsigned field lose no bit; Data2 and Data3 are the 16
\* bit values of their 4 digits.
C20_NoBitLost ==
    (parsed.called /\ Canonical(text)) =>
      /\ parsed.id.Data1.hi \in 0..65535 /\ parsed.id.Data1.lo \in 0..65535
      /\ parsed.id.Data1.hi \div 4096 = DigitValue(text[1])
      /\ (DigitValue(text[1]) >= 8) <=> (parsed.id.Data1.hi >= 32768)
      /\ parsed.id.Data1.hi % 4096 =
            256 * DigitValue(text[2]) + Val2(text, 2)
      /\ parsed.id.Data1.lo = 256 * Val2(text, 4) + Val2(text, 6)
      /\ parsed.id.Data2 \in 0..65535 /\ parsed.id.Data2 \div 4096 = DigitValue(text[10])
      /\ parsed.id.Data3 \in 0..65535 /\ parsed.id.Data3 \div 4096 = DigitValue(text[15])

\* a text whose first digit is 8 has been parsed: bit 31 of Data1 alone of
\* the top four is set
C20_Witness ==
    /\ parsed.called /\ Canonical(text) /\ text[1] = 56
    /\ parsed.id.Data1.hi \div 4096 = 8

\* the digits of two canonical texts have the same values
SameDigits(a, b) ==
    \A i \in 0..35 : i \notin DashAt => DigitValue(a[i + 1]) = DigitValue(b[i + 1])
\* b is a with some letters in the other case
CaseVariant(a, b) ==
    /\ Len(a) = Len(b)
    /\ \A i \in 1..Len(a) :
         \/ b[i] = a[i]
         \/ a[i] \in 65..70 /\ b[i] = a[i] + 32
         \/ a[i] \in 97..102 /\ b[i] = a[i] - 32

\* C21: a canonical text with any of its letters a-f, A-F put into the other
\* case parses too and gives an Identifier equal under ==; two canonical
\* texts that differ in the value of a digit give Identifiers that are not
\* equal.
C21_CaseInsensitive ==
    (parsedTwin.called /\ Canonical(text) /\ Canonical(twin)) =>
      /\ parsed.status = "ok" /\ parsedTwin.status = "ok"
      /\ CaseVariant(text, twin) =>
           /\ GuidBytes(parsed.id) = GuidBytes(parsedTwin.id)
           /\ parsedTwin.id = parsed.id
      /\ ~SameDigits(text, twin) =>
           GuidBytes(parsed.id) # GuidBytes(parsedTwin.id)
      /\ CaseVariant(text, twin) \/ ~SameDigits(text, twin)

\* the text of IFoo with two of its letters in lower case has been parsed
\* next to the text itself
C21_Witness ==
    /\ parsedTwin.called /\ text = IFoo_IID
    /\ twin # text /\ edits = 2 /\ CaseVariant(text, twin)
    /\ parsedTwin.status = "ok"

\* the position of the first terminator of s
FirstZero(s) == CHOOSE i \in 0..(Len(s) - 1) :
                    s[i + 1] = 0 /\ \A k \in 0..(i - 1) : s[k + 1] # 0

\* C22: for a terminated text string_to_guid reads no char after the first
\* terminator, and every index it uses into hex2bin lies in the table's 103
\* entries, whatever the values of the chars.
C22_NoReadOutside ==
    parsed.called =>
      /\ parsed.last <= FirstZero(text)
      /\ ~parsed.oob

TypeOK ==
    /\ refCountCom \in 0..MaxRefs
    /\ refCountSharedPtr \in 0..MaxRefs
    /\ refMutex \in SUBSET Threads /\ Cardinality(refMutex) <= 1
    /\ deleted \in 0..1
    /\ ~aborted

====
